---- MODULE Spec2Model ----
(***************************************************************************)
(* SmuView device acquisition core: BaseDevice / HardwareDevice.           *)
(*                                                                         *)
(* Two threads are modelled: the owning thread, which calls open(),        *)
(* close(), start_aquisition() and pause_aquisition(), and the acquisition *)
(* thread running aquisition_thread_proc(), inside which the driver's      *)
(* session synchronously calls data_feed_in() for every packet.            *)
(*                                                                         *)
(* Calls into the driver library fail only where the code handles the      *)
(* failure (sr_device_->open(), session start, session run, the buffer     *)
(* allocation of feed_in_analog).                                          *)
(***************************************************************************)
EXTENDS Integers, Sequences, FiniteSets, TLC

VARIABLES
    \* ---- the device as the driver library reports it (fixed per behaviour)
    sr_channel_groups,        \* sr_device_->channel_groups(): name -> channels
    driver_name,              \* sr_hardware_device()->driver()->name()
    sr_info,                  \* vendor, model, version, serial number,
                              \* connection id of sr_device_
    dm_devices,               \* device_manager.devices(), for display_name
    cg_config_keys,           \* the channel groups that have config keys
    sr_config_keys,           \* sr_device_->config_keys()
    sr_get_keys,              \* the config keys of the device that can be read
    \* ---- HardwareDevice fields
    configurable_map_,        \* the keys of the Configurable registry
    samplerate_prop_,         \* the key of the Configurable the sample-rate
                              \* property was taken from, or NoProperty
    \* ---- BaseDevice fields
    device_open_,
    aquisition_state_,
    frame_began_,
    frame_start_timestamp_,
    channel_name_map_,        \* channel name -> channel object
    channel_group_name_map_,  \* group name -> vector of channel objects
    sr_channel_map_,          \* driver channel -> channel object
    \* ---- objects and events reachable from the device
    channel_objs,             \* the Channel objects made so far, by identity
    channel_added,            \* the channel_added signals emitted, in order
    data_mutex_,              \* owner of the recursive data mutex
    \* ---- the driver library's session and device
    sess,                     \* "idle" | "running" | "stopping"
    callbacks,                \* datafeed callbacks installed in the session
    sr_dev_open,              \* the driver device is open
    sr_samplerate,            \* the driver's SAMPLERATE setting (0: default)
    \* ---- the owning thread
    opc,                      \* where the owning thread is
    close_from_open,          \* the running close() was called by open()
    last_op,                  \* the owning thread's latest call
    opens,                    \* successful sr_device_->open() calls so far
    \* ---- the acquisition thread
    apc,                      \* where the acquisition thread is
    thread_end,               \* why the latest acquisition thread ended
    handler_calls,            \* error_handler calls of the latest thread
    cur,                      \* the analog packet feed_in_analog is handling
    pushes,                   \* its push_interleaved_samples calls, in order
    \* ---- packet stream history and the wall clock
    stream_frame,             \* FrameBegin dispatched, no FrameEnd since
    stream_frame_ts,          \* the clock value that FrameBegin read
    stream_end,               \* End dispatched, no FrameBegin since
    dropped,                  \* an analog packet was dropped by the state gate
    alloc_failed,             \* an analog packet's buffer allocation failed
    meta_fwd,                 \* the Configurables the latest Meta packet was
                              \* forwarded to, in order
    shown_name,               \* the result of the latest display_name call
    clock                     \* QDateTime::currentMSecsSinceEpoch()

dev_vars   == <<sr_channel_groups, driver_name, sr_info, dm_devices,
                cg_config_keys, sr_config_keys, sr_get_keys>>
conf_vars  == <<configurable_map_, samplerate_prop_, meta_fwd>>
obs_vars   == <<shown_name, alloc_failed>>
reg_vars   == <<channel_name_map_, channel_group_name_map_, sr_channel_map_,
                channel_objs, channel_added>>
frame_vars == <<frame_began_, frame_start_timestamp_, stream_frame,
                stream_frame_ts, stream_end>>
sess_vars  == <<sess, callbacks, sr_dev_open, sr_samplerate>>
owner_vars == <<opc, close_from_open, last_op, opens>>
feed_vars  == <<cur, pushes, data_mutex_, dropped>>
thr_vars   == <<apc, thread_end, handler_calls>>

vars == <<dev_vars, conf_vars, obs_vars,
          reg_vars, frame_vars, sess_vars, owner_vars, feed_vars,
          thr_vars, device_open_, aquisition_state_, clock>>

(***************************************************************************)
(* Bounds of the model.                                                    *)
(***************************************************************************)
NumChannels == 2   \* channels the device reports
MaxN        == 2   \* samples in one analog packet
MaxClock    == 1   \* last value of the wall clock
MaxOpens    == 2   \* registry builds (successful driver opens)

SrChannels   == 1..NumChannels
ChannelNames == <<"CH1", "CH2", "CH3", "CH4">>
GroupOrder   == <<"A", "B">>     \* std::map iterates its keys in this order
GroupNames   == {GroupOrder[i] : i \in DOMAIN GroupOrder}

AquisitionStates == {"Stopped", "Running", "Paused"}
NoPacket == [type |-> "None"]

\* sigrok::Channel::name(): unique per device
SrName(sr) == ChannelNames[sr]

\* sr_device_->channels()
SrDeviceChannels == [i \in 1..NumChannels |-> i]

\* the channel lists a channel group or an analog payload may carry: driver
\* channels, each at most once
ChannelLists ==
    {s \in UNION {[1..k -> SrChannels] : k \in 0..NumChannels} :
        \A i, j \in DOMAIN s : i # j => s[i] # s[j]}

SeqToSet(s) == {s[i] : i \in DOMAIN s}

\* a driver channel that sr_device_->channels() does not report
UnknownChannel == NumChannels + 1

\* the channel lists an analog payload may carry
PacketChannelLists ==
    {s \in UNION {[1..k -> SrChannels \cup {UnknownChannel}] :
                     k \in 0..NumChannels} :
        \A i, j \in DOMAIN s : i # j => s[i] # s[j]}

\* an empty shared_ptr<BaseChannel>
Null == 0

(***************************************************************************)
(* The channel registry.  A registry value r holds the three maps, the     *)
(* Channel objects (r.objs[o].channel_group_names is the object's set of   *)
(* group names) and the channel_added signals emitted.                     *)
(***************************************************************************)
Registry ==
    [nm    |-> channel_name_map_,
     gm    |-> channel_group_name_map_,
     sm    |-> sr_channel_map_,
     objs  |-> channel_objs,
     added |-> channel_added]

\* BaseDevice::add_channel
add_channel(r, channel, channel_group_name) ==
    LET name == r.objs[channel].name
        nm1 == IF name \notin DOMAIN r.nm
               THEN r.nm @@ (name :> channel)
               ELSE r.nm
        gm0 == IF channel_group_name \notin DOMAIN r.gm
               THEN r.gm @@ (channel_group_name :> <<>>)
               ELSE r.gm
        gm1 == [gm0 EXCEPT ![channel_group_name] = Append(@, channel)]
        objs1 == IF channel_group_name
                      \notin r.objs[channel].channel_group_names
                 THEN [r.objs EXCEPT ![channel].channel_group_names =
                                          @ \cup {channel_group_name}]
                 ELSE r.objs
    IN  [nm    |-> nm1,
         gm    |-> gm1,
         sm    |-> r.sm,
         objs  |-> objs1,
         added |-> Append(r.added, channel)]

\* ---- variant of add_sr_channel: the name registry is not consulted
add_sr_channel_always_new(r, sr_channel, channel_group_name) ==
    LET channel == Len(r.objs) + 1
        obj == [name |-> SrName(sr_channel),
                sr   |-> sr_channel,
                channel_group_names |-> {channel_group_name}]
        r1 == [r EXCEPT !.objs = Append(@, obj),
                        !.sm = (sr_channel :> channel) @@ @]
    IN  add_channel(r1, channel, channel_group_name)

\* BaseDevice::add_sr_channel
add_sr_channel(r, sr_channel, channel_group_name) ==
    IF SrName(sr_channel) \in DOMAIN r.nm
    THEN add_channel(r, r.nm[SrName(sr_channel)], channel_group_name)
    ELSE LET channel == Len(r.objs) + 1
             obj == [name |-> SrName(sr_channel),
                     sr   |-> sr_channel,
                     channel_group_names |-> {channel_group_name}]
             r1 == [r EXCEPT !.objs = Append(@, obj),
                             !.sm = @ @@ (sr_channel :> channel)]
         IN  add_channel(r1, channel, channel_group_name)

\* the inner loop of pass 1: the channels of one channel group
RECURSIVE AddGroupChannels(_, _, _)
AddGroupChannels(r, chans, group) ==
    IF chans = <<>> THEN r
    ELSE AddGroupChannels(add_sr_channel(r, Head(chans), group),
                          Tail(chans), group)

\* pass 1: every channel group, in key order
RECURSIVE AddGroups(_, _, _)
AddGroups(r, groups, order) ==
    IF order = <<>> THEN r
    ELSE IF Head(order) \in DOMAIN groups
         THEN AddGroups(AddGroupChannels(r, groups[Head(order)], Head(order)),
                        groups, Tail(order))
         ELSE AddGroups(r, groups, Tail(order))

\* ---- variant of AddUngrouped: registered channels are not skipped
RECURSIVE AddUngroupedAll(_, _)
AddUngroupedAll(r, chans) ==
    IF chans = <<>> THEN r
    ELSE AddUngroupedAll(add_sr_channel(r, Head(chans), ""), Tail(chans))

\* pass 2: the channels that are in no channel group
RECURSIVE AddUngrouped(_, _)
AddUngrouped(r, chans) ==
    IF chans = <<>> THEN r
    ELSE IF Head(chans) \in DOMAIN r.sm
         THEN AddUngrouped(r, Tail(chans))
         ELSE AddUngrouped(add_sr_channel(r, Head(chans), ""), Tail(chans))

\* HardwareDevice::init_channels
init_channels(r, groups) ==
    AddUngrouped(AddGroups(r, groups, GroupOrder), SrDeviceChannels)

(***************************************************************************)
(* The display name: HardwareDevice::display_name.                         *)
(***************************************************************************)
\* the strings a device may report; "" is the empty string
Vendors  == {"", "Acme"}
Models   == {"", "M1"}
Versions == {"", "1.0"}
Serials  == {"", "S1"}
ConnIds  == {"", "usb"}

\* sr_device_ of this device, and the identities of the other devices
SelfId   == 1
OtherIds == {2, 3}

\* what sr_device_ reports about itself
Infos ==
    [vendor : Vendors, model : Models, version : Versions,
     serial_number : Serials, connection_id : ConnIds]

\* a device of the device manager, as display_name looks at it
KnownDevice(id, vendor, model) ==
    [id |-> id, vendor |-> vendor, model |-> model]

NoName == [called |-> FALSE]

\* QStringList::join(" ")
RECURSIVE Join(_)
Join(parts) ==
    IF parts = <<>> THEN ""
    ELSE IF Len(parts) = 1 THEN parts[1]
    ELSE parts[1] \o " " \o Join(Tail(parts))

\* the any_of of display_name: another device with this vendor and model
multiple_dev(info, devices) ==
    \E dev \in devices :
        /\ dev.vendor = info.vendor
        /\ dev.model = info.model
        /\ dev.id # SelfId

\* the QStringList display_name builds
display_name_parts(info, devices) ==
    LET vendor == IF info.vendor # "" THEN <<info.vendor>> ELSE <<>>
        model == IF info.model # "" THEN <<info.model>> ELSE <<>>
        version == IF info.version # "" THEN <<info.version>> ELSE <<>>
        suffix == IF info.serial_number # ""
                  THEN <<"[S/N: " \o info.serial_number \o "]">>
                  ELSE IF info.connection_id # ""
                  THEN <<"(" \o info.connection_id \o ")">>
                  ELSE <<>>
    IN  IF multiple_dev(info, devices)
        THEN vendor \o model \o version \o suffix
        ELSE vendor \o model

\* HardwareDevice::display_name
display_name(info, devices) == Join(display_name_parts(info, devices))

(***************************************************************************)
(* The Configurable registry: HardwareDevice::init_configurables and       *)
(* HardwareDevice::feed_in_meta.  configurable_map_ is held as its set of  *)
(* keys; it is iterated in key order, the empty key (the device's own      *)
(* Configurable) first.                                                    *)
(***************************************************************************)
\* the config keys a device may report; the first three control the
\* acquisition
AcquisitionControlKeys == {"CONTINUOUS", "LIMIT_SAMPLES", "LIMIT_MSEC"}

SrConfigKeys == AcquisitionControlKeys \cup {"SAMPLERATE", "VOLTAGE"}

NoProperty == "nullptr"

\* deviceutil::get_config_key: the ConfigKey of a driver key, Unknown for
\* the keys that control the acquisition
get_config_key(key) ==
    IF key \in AcquisitionControlKeys THEN "Unknown" ELSE key

\* the count loop of init_configurables
device_ck_cnt(keys) ==
    Cardinality({key \in keys : get_config_key(key) # "Unknown"})

\* ---- variant of init_configurables: the device's Configurable is always
\* created
init_configurables_device_always(groups, keyed, ck_cnt) ==
    {g \in DOMAIN groups : g \in keyed} \cup {""}

\* HardwareDevice::init_configurables: the registry it builds
init_configurables(groups, keyed, ck_cnt) ==
    {g \in DOMAIN groups : g \in keyed}
        \cup (IF ck_cnt = 0 THEN {} ELSE {""})

\* HardwareDevice::init_configurables: the sample-rate property it takes,
\* from the device's Configurable d_c only
init_samplerate_prop(prop, map, getkeys) ==
    IF "" \in map /\ "SAMPLERATE" \in getkeys THEN "" ELSE prop

\* the keys of the registry in iteration order
ConfigurableOrder(map) ==
    SelectSeq(<<"">> \o GroupOrder, LAMBDA k : k \in map)

\* the loop of feed_in_meta over the keys still to visit: the Configurables
\* the packet is handed to
RECURSIVE feed_in_meta_loop(_, _)
feed_in_meta_loop(keys, size) ==
    IF keys = <<>> THEN <<>>
    ELSE IF Head(keys) = "" /\ size > 1
         THEN feed_in_meta_loop(Tail(keys), size)
         ELSE <<Head(keys)>>

\* HardwareDevice::feed_in_meta
feed_in_meta(map) ==
    feed_in_meta_loop(ConfigurableOrder(map), Cardinality(map))

(***************************************************************************)
(* Initial state: a constructed, never opened device.  The constructor     *)
(* initialises device_open_ and frame_began_ only: aquisition_state_ is    *)
(* read by data_feed_in as whatever value the object's memory holds.       *)
(* frame_start_timestamp_ is not read before feed_in_frame_begin wrote it. *)
(***************************************************************************)
MainGroups == ("A" :> <<1>>) @@ ("B" :> <<1>>)

MainInfo ==
    [vendor |-> "Acme", model |-> "M1", version |-> "1.0",
     serial_number |-> "S1", connection_id |-> "usb"]

InitFields ==
    /\ device_open_ = FALSE
    /\ frame_began_ = FALSE
    /\ aquisition_state_ \in AquisitionStates
    /\ frame_start_timestamp_ = 0
    /\ channel_name_map_ = <<>>
    /\ channel_group_name_map_ = <<>>
    /\ sr_channel_map_ = <<>>
    /\ channel_objs = <<>>
    /\ channel_added = <<>>
    /\ data_mutex_ = "free"
    /\ sess = "idle"
    /\ callbacks = 0
    /\ sr_dev_open = FALSE
    /\ sr_samplerate = 0
    /\ opc = "idle"
    /\ close_from_open = FALSE
    /\ last_op = "none"
    /\ opens = 0
    /\ apc = "none"
    /\ thread_end = "none"
    /\ handler_calls = 0
    /\ cur = NoPacket
    /\ pushes = <<>>
    /\ stream_frame = FALSE
    /\ stream_frame_ts = 0
    /\ stream_end = FALSE
    /\ dropped = FALSE
    /\ alloc_failed = FALSE
    /\ meta_fwd = [dispatched |-> FALSE, to |-> <<>>]
    /\ shown_name = NoName
    /\ clock = 0

\* a constructed device whose Configurables were initialised
InitDevice ==
    /\ InitFields
    /\ configurable_map_ =
           init_configurables(sr_channel_groups, cg_config_keys,
                              device_ck_cnt(sr_config_keys))
    /\ samplerate_prop_ =
           init_samplerate_prop(NoProperty, configurable_map_, sr_get_keys)

Init ==
    /\ sr_channel_groups = MainGroups
    /\ driver_name = "demo"
    /\ sr_info = MainInfo
    /\ dm_devices = {KnownDevice(SelfId, MainInfo.vendor, MainInfo.model)}
    /\ cg_config_keys = {"A"}
    /\ sr_config_keys = {"CONTINUOUS", "SAMPLERATE"}
    /\ sr_get_keys = {"SAMPLERATE"}
    /\ InitDevice

(***************************************************************************)
(* The driver library's session.                                           *)
(***************************************************************************)
\* sr_session_->stop(): a running session is told to stop; a session that
\* has not been started has nothing to stop
SessionStop(s) == IF s = "running" THEN "stopping" ELSE s

(***************************************************************************)
(* The owning thread.                                                      *)
(***************************************************************************)
\* ---- variant of Open: an open device is not closed first
OpenNoClose ==
    /\ opc = "idle"
    /\ opens < MaxOpens
    /\ last_op' = "open"
    /\ opc' = "open_dev"
    /\ UNCHANGED <<dev_vars, conf_vars, obs_vars, reg_vars, frame_vars,
                   feed_vars, thr_vars, sess_vars, close_from_open, opens,
                   device_open_, aquisition_state_, clock>>

\* BaseDevice::open, up to the driver open: an open device is closed first
Open ==
    /\ opc = "idle"
    /\ opens < MaxOpens
    /\ last_op' = "open"
    /\ IF device_open_
       THEN /\ sess' = SessionStop(sess)
            /\ opc' = "close_join"
            /\ close_from_open' = TRUE
       ELSE /\ opc' = "open_dev"
            /\ UNCHANGED <<sess, close_from_open>>
    /\ UNCHANGED <<dev_vars, conf_vars, obs_vars,
                   reg_vars, frame_vars, feed_vars, thr_vars,
                   callbacks, sr_dev_open, sr_samplerate, opens,
                   device_open_, aquisition_state_, clock>>

\* ---- variant of OpenDeviceFails: the callback is installed before the
\* driver device is opened
OpenDeviceFailsAfterCallback ==
    /\ opc = "open_dev"
    /\ opc' = "idle"
    /\ last_op' = "open_threw"
    /\ callbacks' = callbacks + 1
    /\ UNCHANGED <<dev_vars, conf_vars, obs_vars,
                   reg_vars, frame_vars, sess, sr_dev_open,
                   sr_samplerate, feed_vars, thr_vars, close_from_open, opens,
                   device_open_, aquisition_state_, clock>>

\* BaseDevice::open: sr_device_->open() throws, open() rethrows
OpenDeviceFails ==
    /\ opc = "open_dev"
    /\ opc' = "idle"
    /\ last_op' = "open_threw"
    /\ UNCHANGED <<dev_vars, conf_vars, obs_vars,
                   reg_vars, frame_vars, sess_vars, feed_vars,
                   thr_vars, close_from_open, opens, device_open_,
                   aquisition_state_, clock>>

\* BaseDevice::open: sr_device_->open() succeeds; the device is added to the
\* session, the registry is built, the callback installed, the thread started
OpenDevice ==
    /\ opc = "open_dev"
    /\ LET r == init_channels(Registry, sr_channel_groups)
       IN  /\ channel_name_map_' = r.nm
           /\ channel_group_name_map_' = r.gm
           /\ sr_channel_map_' = r.sm
           /\ channel_objs' = r.objs
           /\ channel_added' = r.added
    /\ sr_dev_open' = TRUE
    /\ callbacks' = callbacks + 1
    /\ apc' = "start"
    /\ thread_end' = "none"
    /\ handler_calls' = 0
    /\ opens' = opens + 1
    /\ opc' = "open_state"
    /\ UNCHANGED <<dev_vars, conf_vars, obs_vars,
                   frame_vars, sess, sr_samplerate, close_from_open,
                   last_op, cur, pushes, data_mutex_, dropped, device_open_,
                   aquisition_state_, clock>>

\* BaseDevice::open: the two writes after the thread was started
OpenSetRunning ==
    /\ opc = "open_state"
    /\ aquisition_state_' = "Running"
    /\ device_open_' = TRUE
    /\ opc' = "open_hw"
    /\ UNCHANGED <<dev_vars, conf_vars, obs_vars,
                   reg_vars, frame_vars, sess_vars, feed_vars,
                   thr_vars, close_from_open, last_op, opens, clock>>

\* HardwareDevice::open: the initial sample rate of the demo driver
OpenConfigSet ==
    /\ opc = "open_hw"
    /\ sr_samplerate' = IF driver_name = "demo" THEN 5 ELSE sr_samplerate
    /\ opc' = "idle"
    /\ UNCHANGED <<dev_vars, conf_vars, obs_vars,
                   reg_vars, frame_vars, sess, callbacks,
                   sr_dev_open, feed_vars, thr_vars, close_from_open, last_op,
                   opens, device_open_, aquisition_state_, clock>>

\* ---- variant of Close: the open flag is not checked
CloseUnguarded ==
    /\ opc = "idle"
    /\ last_op' = IF last_op = "close" THEN "close_again" ELSE "close"
    /\ sess' = SessionStop(sess)
    /\ opc' = "close_join"
    /\ close_from_open' = FALSE
    /\ UNCHANGED <<dev_vars, conf_vars, obs_vars,
                   reg_vars, frame_vars, feed_vars, thr_vars,
                   callbacks, sr_dev_open, sr_samplerate, opens,
                   device_open_, aquisition_state_, clock>>

\* BaseDevice::close, called by the owner: return if not open, else stop the
\* session
Close ==
    /\ opc = "idle"
    /\ last_op' = IF last_op = "close" THEN "close_again" ELSE "close"
    /\ IF ~device_open_
       THEN UNCHANGED <<sess, opc, close_from_open>>
       ELSE /\ sess' = SessionStop(sess)
            /\ opc' = "close_join"
            /\ close_from_open' = FALSE
    /\ UNCHANGED <<dev_vars, conf_vars, obs_vars,
                   reg_vars, frame_vars, feed_vars, thr_vars,
                   callbacks, sr_dev_open, sr_samplerate, opens,
                   device_open_, aquisition_state_, clock>>

\* ---- variant of CloseJoin: close() does not wait for the thread
CloseJoinNoWait ==
    /\ opc = "close_join"
    /\ opc' = "close_cb"
    /\ UNCHANGED <<dev_vars, conf_vars, obs_vars,
                   reg_vars, frame_vars, sess_vars, feed_vars,
                   thr_vars, close_from_open, last_op, opens, device_open_,
                   aquisition_state_, clock>>

\* BaseDevice::close: join the acquisition thread if it is joinable
CloseJoin ==
    /\ opc = "close_join"
    /\ apc \in {"none", "done"}
    /\ apc' = "none"
    /\ opc' = "close_cb"
    /\ UNCHANGED <<dev_vars, conf_vars, obs_vars,
                   reg_vars, frame_vars, sess_vars, feed_vars,
                   thread_end, handler_calls, close_from_open, last_op, opens,
                   device_open_, aquisition_state_, clock>>

\* BaseDevice::close: remove the callbacks, write Stopped
CloseRemoveCallbacks ==
    /\ opc = "close_cb"
    /\ callbacks' = 0
    /\ aquisition_state_' = "Stopped"
    /\ opc' = "close_dev"
    /\ UNCHANGED <<dev_vars, conf_vars, obs_vars,
                   reg_vars, frame_vars, sess, sr_dev_open,
                   sr_samplerate, feed_vars, thr_vars, close_from_open,
                   last_op, opens, device_open_, clock>>

\* BaseDevice::close: close the driver device (a failure is swallowed),
\* remove it from the session, clear the open flag, return
CloseDevice ==
    /\ opc = "close_dev"
    /\ sr_dev_open' = FALSE
    /\ device_open_' = FALSE
    /\ opc' = IF close_from_open THEN "open_dev" ELSE "idle"
    /\ close_from_open' = FALSE
    /\ UNCHANGED <<dev_vars, conf_vars, obs_vars,
                   reg_vars, frame_vars, sess, callbacks,
                   sr_samplerate, feed_vars, thr_vars, last_op, opens,
                   aquisition_state_, clock>>

\* BaseDevice::start_aquisition
StartAquisition ==
    /\ opc = "idle"
    /\ aquisition_state_' = "Running"
    /\ last_op' = "start"
    /\ UNCHANGED <<dev_vars, conf_vars, obs_vars,
                   reg_vars, frame_vars, sess_vars, feed_vars,
                   thr_vars, opc, close_from_open, opens, device_open_, clock>>

\* ---- variant of PauseAquisition: pausing also stops the session
PauseStopsSession ==
    /\ opc = "idle"
    /\ aquisition_state_' = "Paused"
    /\ last_op' = "pause"
    /\ sess' = SessionStop(sess)
    /\ UNCHANGED <<dev_vars, conf_vars, obs_vars, reg_vars, frame_vars,
                   callbacks, sr_dev_open, sr_samplerate, feed_vars,
                   thr_vars, opc, close_from_open, opens, device_open_,
                   clock>>

\* BaseDevice::pause_aquisition
PauseAquisition ==
    /\ opc = "idle"
    /\ aquisition_state_' = "Paused"
    /\ last_op' = "pause"
    /\ UNCHANGED <<dev_vars, conf_vars, obs_vars,
                   reg_vars, frame_vars, sess_vars, feed_vars,
                   thr_vars, opc, close_from_open, opens, device_open_, clock>>

(***************************************************************************)
(* The acquisition thread: BaseDevice::aquisition_thread_proc.             *)
(***************************************************************************)
\* sr_session_->start() succeeds
ThreadSessionStart ==
    /\ apc = "start"
    /\ sess' = "running"
    /\ apc' = "started"
    /\ UNCHANGED <<dev_vars, conf_vars, obs_vars,
                   reg_vars, frame_vars, callbacks, sr_dev_open,
                   sr_samplerate, owner_vars, feed_vars, thread_end,
                   handler_calls, device_open_, aquisition_state_, clock>>

\* sr_session_->start() throws: error_handler is called, the thread returns
ThreadSessionStartFails ==
    /\ apc = "start"
    /\ handler_calls' = handler_calls + 1
    /\ thread_end' = "start_failed"
    /\ apc' = "done"
    /\ UNCHANGED <<dev_vars, conf_vars, obs_vars,
                   reg_vars, frame_vars, sess_vars, owner_vars,
                   feed_vars, device_open_, aquisition_state_, clock>>

\* the thread's write of Running after the session was started
ThreadSetRunning ==
    /\ apc = "started"
    /\ aquisition_state_' = "Running"
    /\ apc' = "run"
    /\ UNCHANGED <<dev_vars, conf_vars, obs_vars,
                   reg_vars, frame_vars, sess_vars, owner_vars,
                   feed_vars, thread_end, handler_calls, device_open_, clock>>

\* sr_session_->run() returns: the session was stopped or the driver ended
\* the acquisition
ThreadRunReturns ==
    /\ apc = "run"
    /\ sess' = "idle"
    /\ thread_end' = "run_returned"
    /\ apc' = "write_stopped"
    /\ UNCHANGED <<dev_vars, conf_vars, obs_vars,
                   reg_vars, frame_vars, callbacks, sr_dev_open,
                   sr_samplerate, owner_vars, feed_vars, handler_calls,
                   device_open_, aquisition_state_, clock>>

\* sr_session_->run() throws: error_handler is called
ThreadRunFails ==
    /\ apc = "run"
    /\ sess' = "idle"
    /\ handler_calls' = handler_calls + 1
    /\ thread_end' = "run_failed"
    /\ apc' = "write_stopped"
    /\ UNCHANGED <<dev_vars, conf_vars, obs_vars,
                   reg_vars, frame_vars, callbacks, sr_dev_open,
                   sr_samplerate, owner_vars, feed_vars, device_open_,
                   aquisition_state_, clock>>

\* the thread's write of Stopped before it returns
ThreadSetStopped ==
    /\ apc = "write_stopped"
    /\ aquisition_state_' = "Stopped"
    /\ apc' = "done"
    /\ UNCHANGED <<dev_vars, conf_vars, obs_vars,
                   reg_vars, frame_vars, sess_vars, owner_vars,
                   feed_vars, thread_end, handler_calls, device_open_, clock>>

(***************************************************************************)
(* Packet dispatch: BaseDevice::data_feed_in, called by the session's run  *)
(* loop on the acquisition thread, once per packet and installed callback. *)
(***************************************************************************)
\* the session is inside run() and calls the installed callback
Dispatching ==
    /\ apc = "run"
    /\ sess \in {"running", "stopping"}
    /\ callbacks > 0

\* data_feed_in: a packet of another device is ignored
FeedInOtherDevice ==
    /\ Dispatching
    /\ UNCHANGED vars

\* data_feed_in for Header and Trigger: feed_in_header and feed_in_trigger
\* are empty
FeedInHeaderTrigger ==
    /\ Dispatching
    /\ UNCHANGED vars

\* data_feed_in for Logic: dropped unless the state is Running, and
\* feed_in_logic ignores its payload
FeedInLogic ==
    /\ Dispatching
    /\ UNCHANGED vars

\* data_feed_in for Meta: HardwareDevice::feed_in_meta hands the packet to a
\* Configurable; no field of the device changes
FeedInMeta ==
    /\ Dispatching
    /\ meta_fwd' = [dispatched |-> TRUE,
                    to |-> feed_in_meta(configurable_map_)]
    /\ UNCHANGED <<dev_vars, obs_vars, reg_vars, frame_vars, sess_vars,
                   owner_vars, feed_vars, thr_vars, device_open_,
                   aquisition_state_, clock, configurable_map_,
                   samplerate_prop_>>

\* data_feed_in for FrameBegin: HardwareDevice::feed_in_frame_begin
FeedInFrameBegin ==
    /\ Dispatching
    /\ frame_start_timestamp_' = clock
    /\ stream_frame_ts' = clock
    /\ frame_began_' = TRUE
    /\ stream_frame' = TRUE
    /\ stream_end' = FALSE
    /\ UNCHANGED <<dev_vars, conf_vars, obs_vars,
                   reg_vars, sess_vars, owner_vars, feed_vars,
                   thr_vars, device_open_, aquisition_state_, clock>>

\* data_feed_in for FrameEnd: HardwareDevice::feed_in_frame_end
FeedInFrameEnd ==
    /\ Dispatching
    /\ frame_began_' = FALSE
    /\ stream_frame' = FALSE
    /\ UNCHANGED <<dev_vars, conf_vars, obs_vars,
                   reg_vars, sess_vars, owner_vars, feed_vars,
                   thr_vars, device_open_, aquisition_state_, clock,
                   frame_start_timestamp_, stream_frame_ts, stream_end>>

\* data_feed_in for End: the data mutex is taken and released, and nothing
\* else is done
FeedInEnd ==
    /\ Dispatching
    /\ data_mutex_ = "free"
    /\ stream_end' = TRUE
    /\ UNCHANGED <<dev_vars, conf_vars, obs_vars, reg_vars, sess_vars,
                   owner_vars, feed_vars, thr_vars, device_open_,
                   aquisition_state_, clock, frame_began_,
                   frame_start_timestamp_, stream_frame, stream_frame_ts>>

\* ---- variant of AnalogGate: only a stopped device drops analog packets
AnalogGateNotStopped == aquisition_state_ # "Stopped"

\* the state gate of data_feed_in for an analog packet
AnalogGate == aquisition_state_ = "Running"

\* data_feed_in for Analog, up to the lock of feed_in_analog: the packet is
\* ignored unless the state is Running; an empty payload returns at once
FeedInAnalog ==
    /\ Dispatching
    /\ \E chans \in PacketChannelLists, n \in 0..MaxN :
          /\ IF ~AnalogGate
             THEN /\ dropped' = TRUE
                  /\ UNCHANGED <<cur, pushes, data_mutex_, apc>>
             ELSE IF n = 0
             THEN UNCHANGED <<cur, pushes, data_mutex_, apc, dropped>>
             ELSE /\ data_mutex_ = "free"
                  /\ data_mutex_' = "acq"
                  /\ cur' = [type |-> "Analog", chans |-> chans, n |-> n]
                  /\ pushes' = <<>>
                  /\ apc' = "alloc"
                  /\ UNCHANGED dropped
    /\ UNCHANGED <<dev_vars, conf_vars, obs_vars,
                   reg_vars, frame_vars, sess_vars, owner_vars,
                   thread_end, handler_calls, device_open_,
                   aquisition_state_, clock>>

\* feed_in_analog: the flat buffer is allocated and filled
AnalogDecode ==
    /\ apc = "alloc"
    /\ apc' = "push"
    /\ UNCHANGED <<dev_vars, conf_vars, obs_vars,
                   reg_vars, frame_vars, sess_vars, owner_vars,
                   feed_vars, thread_end, handler_calls, device_open_,
                   aquisition_state_, clock>>

\* ---- variant of AnalogBadAlloc: the lock is not released on this path
AnalogBadAllocKeepsLock ==
    /\ apc = "alloc"
    /\ cur' = NoPacket
    /\ apc' = "run"
    /\ alloc_failed' = TRUE
    /\ UNCHANGED <<dev_vars, conf_vars, shown_name,
                   reg_vars, frame_vars, sess_vars, owner_vars,
                   pushes, dropped, data_mutex_, thread_end, handler_calls,
                   device_open_, aquisition_state_, clock>>

\* ---- variant of AnalogBadAlloc: the catch block stops the session
AnalogBadAllocStopsSession ==
    /\ apc = "alloc"
    /\ data_mutex_' = "free"
    /\ cur' = NoPacket
    /\ apc' = "run"
    /\ alloc_failed' = TRUE
    /\ sess' = SessionStop(sess)
    /\ UNCHANGED <<dev_vars, conf_vars, shown_name,
                   reg_vars, frame_vars, callbacks, sr_dev_open,
                   sr_samplerate, owner_vars, pushes, dropped, thread_end,
                   handler_calls, device_open_, aquisition_state_, clock>>

\* feed_in_analog: the allocation throws bad_alloc, which data_feed_in
\* catches; the lock is released by unwinding
AnalogBadAlloc ==
    /\ apc = "alloc"
    /\ data_mutex_' = "free"
    /\ cur' = NoPacket
    /\ apc' = "run"
    /\ alloc_failed' = TRUE
    /\ UNCHANGED <<dev_vars, conf_vars, shown_name,
                   reg_vars, frame_vars, sess_vars, owner_vars,
                   pushes, dropped, thread_end, handler_calls,
                   device_open_, aquisition_state_, clock>>

\* ---- variants of PushArgs
\* every push goes to the object of the payload's first channel
PushArgsFirstChannel(pos) ==
    [channel   |-> sr_channel_map_[cur.chans[1]],
     offset    |-> pos - 1,
     n         |-> cur.n,
     stride    |-> Len(cur.chans),
     timestamp |-> IF frame_began_ THEN frame_start_timestamp_ ELSE clock]

\* the buffer is taken to be planar: channel after channel
PushArgsPlanar(pos) ==
    [channel   |-> sr_channel_map_[cur.chans[pos]],
     offset    |-> (pos - 1) * cur.n,
     n         |-> cur.n,
     stride    |-> 1,
     timestamp |-> IF frame_began_ THEN frame_start_timestamp_ ELSE clock]

\* the frame's timestamp is not used
PushArgsWallClock(pos) ==
    [channel   |-> sr_channel_map_[cur.chans[pos]],
     offset    |-> pos - 1,
     n         |-> cur.n,
     stride    |-> Len(cur.chans),
     timestamp |-> clock]

\* the arguments feed_in_analog passes to push_interleaved_samples for the
\* channel at 1-based position pos of the payload: the channel object, the
\* start offset into the flat buffer (channel_data++), the sample count,
\* the stride and the timestamp
PushArgs(pos) ==
    [channel   |-> sr_channel_map_[cur.chans[pos]],
     offset    |-> pos - 1,
     n         |-> cur.n,
     stride    |-> Len(cur.chans),
     timestamp |-> IF frame_began_ THEN frame_start_timestamp_ ELSE clock]

\* the channel of the next turn of the loop is in sr_channel_map_ with a
\* Channel object
NextChannelKnown ==
    /\ cur.chans[Len(pushes) + 1] \in DOMAIN sr_channel_map_
    /\ sr_channel_map_[cur.chans[Len(pushes) + 1]] # Null

\* feed_in_analog: one turn of the loop over the payload's channels
AnalogPush ==
    /\ apc = "push"
    /\ Len(pushes) < Len(cur.chans)
    /\ NextChannelKnown
    /\ pushes' = Append(pushes, PushArgs(Len(pushes) + 1))
    /\ UNCHANGED <<dev_vars, conf_vars, obs_vars,
                   reg_vars, frame_vars, sess_vars, owner_vars,
                   cur, data_mutex_, dropped, thr_vars, device_open_,
                   aquisition_state_, clock>>

\* feed_in_analog: a turn of the loop for a channel that is not in
\* sr_channel_map_.  assert("Unknown channel") tests a string literal and
\* never fails; sr_channel_map_[sr_channel] inserts an empty pointer for the
\* channel, and push_interleaved_samples is called through it.  The call
\* through the empty pointer ends the process (a segmentation fault, or the
\* abort of a checked shared_ptr): nothing of it runs any more, its packet
\* and its lock are gone with it
AnalogPushUnknown ==
    /\ apc = "push"
    /\ Len(pushes) < Len(cur.chans)
    /\ ~NextChannelKnown
    /\ sr_channel_map_' =
           (cur.chans[Len(pushes) + 1] :> Null) @@ sr_channel_map_
    /\ apc' = "crashed"
    /\ opc' = "crashed"
    /\ cur' = NoPacket
    /\ pushes' = <<>>
    /\ data_mutex_' = "free"
    /\ UNCHANGED <<dev_vars, conf_vars, obs_vars, frame_vars, sess_vars,
                   channel_name_map_, channel_group_name_map_, channel_objs,
                   channel_added, close_from_open, last_op, opens, dropped,
                   thread_end, handler_calls, device_open_,
                   aquisition_state_, clock>>

\* feed_in_analog returns after the last channel; the lock is released
AnalogReturn ==
    /\ apc = "push"
    /\ Len(pushes) = Len(cur.chans)
    /\ data_mutex_' = "free"
    /\ cur' = NoPacket
    /\ pushes' = <<>>
    /\ apc' = "run"
    /\ UNCHANGED <<dev_vars, conf_vars, obs_vars,
                   reg_vars, frame_vars, sess_vars, owner_vars,
                   dropped, thread_end, handler_calls, device_open_,
                   aquisition_state_, clock>>

\* the wall clock QDateTime::currentMSecsSinceEpoch() reads: time passes
Tick ==
    /\ clock < MaxClock
    /\ clock' = clock + 1
    /\ UNCHANGED <<dev_vars, conf_vars, obs_vars,
                   reg_vars, frame_vars, sess_vars, owner_vars,
                   feed_vars, thr_vars, device_open_, aquisition_state_>>

(***************************************************************************)
(* The specification.                                                      *)
(***************************************************************************)
Next ==
    \/ Open
    \/ OpenDeviceFails
    \/ OpenDevice
    \/ OpenSetRunning
    \/ OpenConfigSet
    \/ Close
    \/ CloseJoin
    \/ CloseRemoveCallbacks
    \/ CloseDevice
    \/ StartAquisition
    \/ PauseAquisition
    \/ ThreadSessionStart
    \/ ThreadSessionStartFails
    \/ ThreadSetRunning
    \/ ThreadRunReturns
    \/ ThreadRunFails
    \/ ThreadSetStopped
    \/ FeedInOtherDevice
    \/ FeedInHeaderTrigger
    \/ FeedInLogic
    \/ FeedInMeta
    \/ FeedInFrameBegin
    \/ FeedInFrameEnd
    \/ FeedInEnd
    \/ FeedInAnalog
    \/ AnalogDecode
    \/ AnalogBadAlloc
    \/ AnalogPush
    \/ AnalogPushUnknown
    \/ AnalogReturn
    \/ Tick

Spec == Init /\ [][Next]_vars

(***************************************************************************)
(* The registry specification: every channel group topology the bounds     *)
(* allow, and the operations that build the registry or decide when it is  *)
(* built (open, close, the acquisition thread's life), with no packets.    *)
(***************************************************************************)
Topologies == UNION {[D -> ChannelLists] : D \in SUBSET GroupNames}

InitRegistry ==
    /\ sr_channel_groups \in Topologies
    /\ driver_name \in {"demo", "other"}
    /\ sr_info = MainInfo
    /\ dm_devices = {KnownDevice(SelfId, MainInfo.vendor, MainInfo.model)}
    /\ cg_config_keys = {}
    /\ sr_config_keys = {"CONTINUOUS", "SAMPLERATE"}
    /\ sr_get_keys = {"SAMPLERATE"}
    /\ InitDevice

NextRegistry ==
    \/ Open
    \/ OpenDeviceFails
    \/ OpenDevice
    \/ OpenSetRunning
    \/ OpenConfigSet
    \/ Close
    \/ CloseJoin
    \/ CloseRemoveCallbacks
    \/ CloseDevice
    \/ ThreadSessionStart
    \/ ThreadSessionStartFails
    \/ ThreadSetRunning
    \/ ThreadRunReturns
    \/ ThreadRunFails
    \/ ThreadSetStopped

SpecRegistry == InitRegistry /\ [][NextRegistry]_vars

(***************************************************************************)
(* The reader specification: the owning thread also reads the channels'    *)
(* data, holding data_mutex_ while it does.                                *)
(***************************************************************************)
\* the owning thread takes data_mutex_ to read
ReaderLock ==
    /\ opc = "idle"
    /\ data_mutex_ = "free"
    /\ data_mutex_' = "reader"
    /\ opc' = "reading"
    /\ UNCHANGED <<dev_vars, conf_vars, obs_vars, reg_vars, frame_vars,
                   sess_vars, thr_vars, close_from_open, last_op, opens, cur,
                   pushes, dropped, device_open_, aquisition_state_, clock>>

\* the owning thread has read and releases data_mutex_
ReaderUnlock ==
    /\ opc = "reading"
    /\ data_mutex_' = "free"
    /\ opc' = "idle"
    /\ UNCHANGED <<dev_vars, conf_vars, obs_vars, reg_vars, frame_vars,
                   sess_vars, thr_vars, close_from_open, last_op, opens, cur,
                   pushes, dropped, device_open_, aquisition_state_, clock>>

NextReader ==
    \/ Next
    \/ ReaderLock
    \/ ReaderUnlock

SpecReader == Init /\ [][NextReader]_vars

(***************************************************************************)
(* The Meta specification: every set of Configurables init_configurables   *)
(* can build, and an opened device whose session dispatches Meta packets.  *)
(***************************************************************************)
InitMeta ==
    /\ \E D \in SUBSET GroupNames : sr_channel_groups = [g \in D |-> <<1>>]
    /\ driver_name = "demo"
    /\ sr_info = MainInfo
    /\ dm_devices = {KnownDevice(SelfId, MainInfo.vendor, MainInfo.model)}
    /\ cg_config_keys \in SUBSET (DOMAIN sr_channel_groups)
    /\ sr_config_keys \in SUBSET {"CONTINUOUS", "VOLTAGE"}
    /\ sr_get_keys = sr_config_keys
    /\ InitDevice

NextMeta ==
    \/ Open
    \/ OpenDevice
    \/ OpenSetRunning
    \/ OpenConfigSet
    \/ ThreadSessionStart
    \/ ThreadSetRunning
    \/ FeedInMeta

SpecMeta == InitMeta /\ [][NextMeta]_vars

(***************************************************************************)
(* The display-name specification: every description the device may report *)
(* and every set of known devices, and the call of display_name.           *)
(***************************************************************************)
InitDisplayName ==
    /\ sr_channel_groups = MainGroups
    /\ driver_name = "demo"
    /\ sr_info \in Infos
    /\ \E others \in [OtherIds -> Vendors \X Models] :
          dm_devices \in SUBSET
              ({KnownDevice(SelfId, sr_info.vendor, sr_info.model)} \cup
               {KnownDevice(id, others[id][1], others[id][2]) :
                    id \in OtherIds})
    /\ cg_config_keys = {"A"}
    /\ sr_config_keys = {"CONTINUOUS", "SAMPLERATE"}
    /\ sr_get_keys = {"SAMPLERATE"}
    /\ InitDevice

\* HardwareDevice::display_name is called; it changes no field
DisplayName ==
    /\ shown_name' = [called |-> TRUE,
                      parts  |-> display_name_parts(sr_info, dm_devices),
                      text   |-> display_name(sr_info, dm_devices)]
    /\ UNCHANGED <<dev_vars, conf_vars, reg_vars, frame_vars, sess_vars,
                   owner_vars, feed_vars, thr_vars, device_open_,
                   aquisition_state_, clock, alloc_failed>>

NextDisplayName == DisplayName

SpecDisplayName == InitDisplayName /\ [][NextDisplayName]_vars

(***************************************************************************)
(* The Configurables specification: every set of channel groups, of groups *)
(* with config keys and of config keys of the device, and the call of      *)
(* init_configurables on the constructed device.                           *)
(***************************************************************************)
InitConfigurables ==
    /\ \E D \in SUBSET GroupNames : sr_channel_groups = [g \in D |-> <<1>>]
    /\ driver_name = "demo"
    /\ sr_info = MainInfo
    /\ dm_devices = {KnownDevice(SelfId, MainInfo.vendor, MainInfo.model)}
    /\ cg_config_keys \in SUBSET (DOMAIN sr_channel_groups)
    /\ sr_config_keys \in SUBSET SrConfigKeys
    /\ sr_get_keys \in SUBSET sr_config_keys
    /\ InitFields
    /\ configurable_map_ = {}
    /\ samplerate_prop_ = NoProperty

\* HardwareDevice::init_configurables is called
CallInitConfigurables ==
    /\ configurable_map_' =
           configurable_map_ \cup
               init_configurables(sr_channel_groups, cg_config_keys,
                                  device_ck_cnt(sr_config_keys))
    /\ samplerate_prop_' =
           init_samplerate_prop(samplerate_prop_, configurable_map_',
                                sr_get_keys)
    /\ UNCHANGED <<dev_vars, obs_vars, reg_vars, frame_vars, sess_vars,
                   owner_vars, feed_vars, thr_vars, device_open_,
                   aquisition_state_, clock, meta_fwd>>

NextConfigurables == CallInitConfigurables

SpecConfigurables == InitConfigurables /\ [][NextConfigurables]_vars

(***************************************************************************)
(* Sanity of the model: the thread object open() assigns to is never       *)
(* joinable, and the registry is only rebuilt while no thread exists.      *)
(***************************************************************************)
ThreadObjectFree == opc = "open_dev" => apc = "none"

InFeedInAnalog == apc \in {"alloc", "push"}

(***************************************************************************)
(* C1  State-gated ingestion.  An analog packet enters feed_in_analog only *)
(* when data_feed_in read the state Running; a packet dispatched while the *)
(* state is Stopped or Paused makes no push to any channel and is not      *)
(* kept: pushes are made only inside feed_in_analog, and outside it the    *)
(* device holds no packet and no pushes.                                   *)
(***************************************************************************)
C1_StateGatedIngestion ==
    [][/\ (~InFeedInAnalog /\ InFeedInAnalog') =>
              aquisition_state_ = "Running"
       /\ pushes' # pushes => (InFeedInAnalog \/ InFeedInAnalog')
       /\ ~InFeedInAnalog' => (cur' = NoPacket /\ pushes' = <<>>)
       /\ (dropped' /\ ~dropped) =>
              (aquisition_state_ # "Running"
                  /\ UNCHANGED <<pushes, cur, apc, data_mutex_>>)
      ]_vars

\* an analog packet was dropped by the gate of a paused, open device, and
\* no push was made
C1_Witness ==
    /\ dropped
    /\ device_open_
    /\ aquisition_state_ = "Paused"
    /\ apc = "run"
    /\ pushes = <<>>
    /\ cur = NoPacket

(***************************************************************************)
(* C2  Exact fan-out.  The pushes of a packet are made in payload order,   *)
(* each to the object of the channel at that position with the packet's    *)
(* sample count N; when feed_in_analog has gone through the payload, every *)
(* channel of the payload has got exactly one push and every other         *)
(* registered channel none.  No packet with N = 0 enters feed_in_analog's  *)
(* body, so it pushes nothing.                                             *)
(***************************************************************************)
PushesTo(o) == {i \in DOMAIN pushes : pushes[i].channel = o}

C2_ExactFanOut ==
    /\ (InFeedInAnalog /\ SeqToSet(cur.chans) \subseteq SrChannels) =>
          /\ cur.type = "Analog"
          /\ cur.n > 0
          /\ Len(pushes) <= Len(cur.chans)
          /\ \A i \in DOMAIN pushes :
                /\ pushes[i].channel \in DOMAIN channel_objs
                /\ channel_objs[pushes[i].channel].sr = cur.chans[i]
                /\ pushes[i].n = cur.n
    /\ (/\ apc = "push"
        /\ Len(pushes) = Len(cur.chans)
        /\ SeqToSet(cur.chans) \subseteq SrChannels) =>
          \A o \in DOMAIN channel_objs :
              Cardinality(PushesTo(o)) =
                  IF channel_objs[o].sr \in SeqToSet(cur.chans)
                  THEN 1 ELSE 0

\* a two-sample packet for CH2 alone has been distributed: one push to
\* CH2's object, none to CH1's
C2_Witness ==
    /\ apc = "push"
    /\ cur.chans = <<2>>
    /\ cur.n = 2
    /\ Len(pushes) = 1
    /\ PushesTo(sr_channel_map_[2]) = {1}
    /\ PushesTo(sr_channel_map_[1]) = {}

(***************************************************************************)
(* C3  Idempotent close.  A close() call on a device that is not open      *)
(* changes nothing (no session stop, no join, no callback removal, the     *)
(* flag, the state and the registries as they were) and returns at once;   *)
(* a close() that follows a close() changes nothing.                       *)
(***************************************************************************)
CloseCalled ==
    /\ opc = "idle"
    /\ last_op' # last_op
    /\ last_op' \in {"close", "close_again"}

C3_IdempotentClose ==
    [][/\ (CloseCalled /\ ~device_open_) =>
              UNCHANGED <<dev_vars, conf_vars, obs_vars,
                          reg_vars, frame_vars, sess_vars,
                          feed_vars, thr_vars, opc, close_from_open, opens,
                          device_open_, aquisition_state_, clock>>
       /\ (CloseCalled /\ last_op = "close") =>
              UNCHANGED <<dev_vars, conf_vars, obs_vars,
                          reg_vars, frame_vars, sess_vars,
                          feed_vars, thr_vars, opc, close_from_open, opens,
                          device_open_, aquisition_state_, clock>>
      ]_vars

\* close() was called twice in a row on a device that had been opened
C3_Witness ==
    /\ last_op = "close_again"
    /\ opc = "idle"
    /\ opens > 0
    /\ ~device_open_

(***************************************************************************)
(* C4  Interleave correctness.  The push for the channel at 0-based        *)
(* position i of a payload with k channels and N samples is handed start   *)
(* offset i, stride k and count N, so the offsets it addresses are i, i+k, *)
(* ..., i+(N-1)k, all below N*k.                                           *)
(***************************************************************************)
\* the buffer offsets a push with these arguments addresses
StridedOffsets(p) == {p.offset + j * p.stride : j \in 0..(p.n - 1)}

C4_InterleaveCorrectness ==
    InFeedInAnalog =>
        \A i \in DOMAIN pushes :
            LET k == Len(cur.chans)
            IN  /\ pushes[i].offset = i - 1
                /\ pushes[i].stride = k
                /\ pushes[i].n = cur.n
                /\ StridedOffsets(pushes[i]) =
                       {(i - 1) + j * k : j \in 0..(cur.n - 1)}
                /\ \A x \in StridedOffsets(pushes[i]) :
                       x >= 0 /\ x < cur.n * k

\* the second channel of a two-channel, two-sample payload was handed the
\* offsets 1 and 3
C4_Witness ==
    /\ apc = "push"
    /\ Len(cur.chans) = 2
    /\ cur.n = 2
    /\ Len(pushes) = 2
    /\ StridedOffsets(pushes[2]) = {1, 3}

ObjectsNamed(name) ==
    {o \in DOMAIN channel_objs : channel_objs[o].name = name}

GroupsOf(sr) ==
    {g \in DOMAIN sr_channel_groups : sr \in SeqToSet(sr_channel_groups[g])}

C6_ChannelIdentity ==
    \A sr \in SrChannels :
        LET name == SrName(sr)
        IN  /\ Cardinality(ObjectsNamed(name)) <= 1
            /\ opens > 0 =>
                  /\ Cardinality(ObjectsNamed(name)) = 1
                  /\ name \in DOMAIN channel_name_map_
                  /\ sr \in DOMAIN sr_channel_map_
                  /\ ObjectsNamed(name) = {channel_name_map_[name]}
                  /\ sr_channel_map_[sr] = channel_name_map_[name]
                  /\ {k \in DOMAIN channel_name_map_ :
                         channel_name_map_[k] \in ObjectsNamed(name)} = {name}
                  /\ {k \in DOMAIN sr_channel_map_ :
                         sr_channel_map_[k] \in ObjectsNamed(name)} = {sr}
                  /\ \A g \in GroupsOf(sr) :
                        /\ g \in channel_objs[channel_name_map_[name]]
                                     .channel_group_names
                        /\ g \in DOMAIN channel_group_name_map_
                        /\ channel_name_map_[name] \in
                               SeqToSet(channel_group_name_map_[g])

\* the registry was built for a device that reports CH1 in both groups
C6_Witness ==
    /\ opens = 1
    /\ Cardinality(GroupsOf(1)) = 2
    /\ Cardinality(ObjectsNamed(SrName(1))) = 1
    /\ channel_objs[channel_name_map_[SrName(1)]].channel_group_names =
           {"A", "B"}
    /\ Len(channel_group_name_map_["A"]) >= 1
    /\ Len(channel_group_name_map_["B"]) >= 1

(***************************************************************************)
(* C7  The channel-added notification is fired exactly once per distinct   *)
(* channel name, and only for a channel that is in the name registry and   *)
(* in a group list.                                                        *)
(***************************************************************************)
AddedEventsFor(name) ==
    {i \in DOMAIN channel_added : channel_objs[channel_added[i]].name = name}

C7_ChannelAddedOnce ==
    /\ \A sr \in SrChannels :
          /\ Cardinality(AddedEventsFor(SrName(sr))) <= 1
          /\ opens > 0 => Cardinality(AddedEventsFor(SrName(sr))) = 1
    /\ \A i \in DOMAIN channel_added :
          /\ channel_objs[channel_added[i]].name \in DOMAIN channel_name_map_
          /\ \E g \in DOMAIN channel_group_name_map_ :
                channel_added[i] \in SeqToSet(channel_group_name_map_[g])

(***************************************************************************)
(* C8  close() on an open device: the session is told to stop, then the    *)
(* thread is joined, then the callbacks are removed, then the open flag is *)
(* cleared; when it returns there is no acquisition thread, no callback,   *)
(* the session does not run, the flag is false and the state is Stopped;   *)
(* while the device is not open and no open() has started a new thread,    *)
(* no thread exists that could dispatch a packet.                          *)
(***************************************************************************)
C8_CloseOrder ==
    [][/\ (opc # "close_join" /\ opc' = "close_join") => sess' # "running"
       /\ opc' = "close_cb" =>
              (apc' = "none" /\ callbacks' > 0 /\ device_open_')
       /\ opc' = "close_dev" =>
              (apc' = "none" /\ callbacks' = 0 /\ device_open_')
       /\ (opc = "close_dev" /\ opc' # "close_dev") =>
              /\ apc' = "none"
              /\ callbacks' = 0
              /\ sess' = "idle"
              /\ ~device_open_'
              /\ aquisition_state_' = "Stopped"
       /\ (~device_open_' /\ opc' \in {"idle", "open_dev"}) =>
              (apc' = "none" /\ callbacks' = 0)
      ]_vars

\* close() has returned on a device whose acquisition thread had been
\* running the session
C8_Witness ==
    /\ last_op = "close"
    /\ opc = "idle"
    /\ opens = 1
    /\ thread_end = "run_returned"
    /\ ~device_open_
    /\ apc = "none"
    /\ aquisition_state_ = "Stopped"

(***************************************************************************)
(* C9  Hardware-open failure.  When sr_device_->open() fails, open()       *)
(* returns by throwing, and the device is not open: the flag is false, no  *)
(* thread exists, no callback is installed, the driver device is closed    *)
(* and the registry is as it was before the call.                          *)
(***************************************************************************)
C9_OpenFailure ==
    [][(opc = "open_dev" /\ opc' = "idle") =>
           /\ last_op' = "open_threw"
           /\ ~device_open_'
           /\ apc' = "none"
           /\ callbacks' = 0
           /\ ~sr_dev_open'
           /\ UNCHANGED reg_vars
      ]_vars

\* a second open() failed: the open device was closed first and stays closed
C9_Witness ==
    /\ last_op = "open_threw"
    /\ opc = "idle"
    /\ opens = 1
    /\ ~device_open_
    /\ apc = "none"

(***************************************************************************)
(* C10  Acquisition-thread failure.  Once the thread has ended because the *)
(* session start or run failed and open() has returned (and the owner has  *)
(* made no other call), the error handler has been called once and the     *)
(* acquisition state is Stopped.                                           *)
(***************************************************************************)
C10_ThreadFailureStopped ==
    (/\ opc = "idle"
     /\ last_op = "open"
     /\ apc = "done"
     /\ thread_end \in {"start_failed", "run_failed"})
        => (handler_calls = 1 /\ aquisition_state_ = "Stopped")

(***************************************************************************)
(* C11  Lifecycle state machine.  The acquisition state becomes Paused     *)
(* only from Running, whatever the owner calls and whether the device is   *)
(* open or not, and a close() that returns leaves the state Stopped.       *)
(***************************************************************************)
C11_PausedOnlyFromRunning ==
    [][/\ (aquisition_state_' = "Paused" /\ aquisition_state_ # "Paused")
              => aquisition_state_ = "Running"
       /\ (opc = "close_dev" /\ opc' # "close_dev")
              => aquisition_state_' = "Stopped"
      ]_vars

(***************************************************************************)
(* C12  Display name disambiguation.  When another known device has this   *)
(* device's vendor and model, the name contains the serial-number suffix,  *)
(* or the connection-id suffix if the serial number is empty; when no      *)
(* other known device has them, the name is vendor and model only.         *)
(***************************************************************************)
SameModelElsewhere ==
    \E dev \in dm_devices :
        /\ dev.id # SelfId
        /\ dev.vendor = sr_info.vendor
        /\ dev.model = sr_info.model

VendorAndModel ==
    IF sr_info.vendor = "" THEN sr_info.model
    ELSE IF sr_info.model = "" THEN sr_info.vendor
    ELSE sr_info.vendor \o " " \o sr_info.model

C12_DisplayName ==
    shown_name.called =>
        /\ (SameModelElsewhere /\ sr_info.serial_number # "") =>
               ("[S/N: " \o sr_info.serial_number \o "]")
                   \in SeqToSet(shown_name.parts)
        /\ (SameModelElsewhere /\ sr_info.serial_number = "") =>
               ("(" \o sr_info.connection_id \o ")")
                   \in SeqToSet(shown_name.parts)
        /\ ~SameModelElsewhere => shown_name.text = VendorAndModel

(***************************************************************************)
(* C13  Once pause_aquisition() has returned and the owner has made no     *)
(* further call, no analog packet enters feed_in_analog, and only the      *)
(* owner (start_aquisition, open) turns Paused into Running: the           *)
(* acquisition thread does not.                                            *)
(***************************************************************************)
C13_PauseHolds ==
    [][/\ (aquisition_state_ = "Paused" /\ aquisition_state_' = "Running")
              => (opc = "open_state" \/ last_op' = "start")
       /\ (~InFeedInAnalog /\ InFeedInAnalog') => last_op # "pause"
      ]_vars

(***************************************************************************)
(* C14  Registry inconsistency.  A packet that names a channel which is    *)
(* not in the registry is dropped: no push is made for it, neither for the *)
(* unknown channel nor for a channel listed before it, the registries get  *)
(* no entry for the unknown channel, and the acquisition goes on.          *)
(***************************************************************************)
C14_UnknownChannelDropped ==
    /\ pushes # <<>> => SeqToSet(cur.chans) \subseteq SrChannels
    /\ UnknownChannel \notin DOMAIN sr_channel_map_
    /\ apc # "crashed"

(***************************************************************************)
(* C15  Meta routing.  Each Meta packet is forwarded to exactly one        *)
(* Configurable: to the first channel-group Configurable in registry order *)
(* when there is one, and to the device's Configurable (key "") only when  *)
(* it is the only one in the registry.                                     *)
(***************************************************************************)
GroupConfigurables == configurable_map_ \ {""}

FirstGroupConfigurable ==
    CHOOSE g \in GroupConfigurables :
        \A i, j \in DOMAIN GroupOrder :
            (GroupOrder[i] = g /\ GroupOrder[j] \in GroupConfigurables)
                => i <= j

C15_MetaRouting ==
    meta_fwd.dispatched =>
        /\ Len(meta_fwd.to) = 1
        /\ GroupConfigurables # {} => meta_fwd.to[1] = FirstGroupConfigurable
        /\ meta_fwd.to[1] = "" => configurable_map_ = {""}

(***************************************************************************)
(* C16  Sequential dispatch.  When open() is about to start the            *)
(* acquisition thread, no earlier thread exists and no callback is         *)
(* installed, also on a re-open; so there is never more than one installed *)
(* callback, and a packet is dispatched by exactly one callback on the     *)
(* one acquisition thread.                                                 *)
(***************************************************************************)
C16_SequentialDispatch ==
    /\ callbacks <= 1
    /\ opc = "open_dev" => (apc = "none" /\ callbacks = 0)
    /\ apc \in {"run", "alloc", "push"} => callbacks = 1

\* the thread of a second open() is dispatching packets
C16_Witness ==
    /\ opens = 2
    /\ device_open_
    /\ apc = "push"
    /\ pushes # <<>>
    /\ callbacks = 1

(***************************************************************************)
(* C17  The data mutex is held by the acquisition thread exactly while it  *)
(* decodes and distributes a non-empty analog packet: it is taken before   *)
(* the payload is decoded, every push is made under it, and it is free     *)
(* again when the handling has ended, by return or by allocation failure.  *)
(* A reader that holds the mutex sees no packet in distribution.           *)
(***************************************************************************)
C17_MutexHeld ==
    /\ InFeedInAnalog <=> data_mutex_ = "acq"
    /\ pushes # <<>> => data_mutex_ = "acq"
    /\ data_mutex_ = "reader" => (cur = NoPacket /\ pushes = <<>>)

\* the reader holds the mutex after a packet's allocation failed, while the
\* acquisition thread is inside the session's run loop
C17_Witness ==
    /\ data_mutex_ = "reader"
    /\ alloc_failed
    /\ apc = "run"
    /\ device_open_

(***************************************************************************)
(* C18  Resource exhaustion.  When the buffer allocation of an analog      *)
(* packet fails, the packet's handling ends inside data_feed_in: no push   *)
(* was or is made for it, the acquisition thread is back in the session's  *)
(* run loop with the session, the callback, the acquisition state and the  *)
(* error handler untouched, and the data mutex is free, so that the next   *)
(* analog packet is taken as any other.                                    *)
(***************************************************************************)
C18_AllocFailureAbsorbed ==
    [][(apc = "alloc" /\ apc' \notin {"alloc", "push"}) =>
           /\ apc' = "run"
           /\ pushes = <<>>
           /\ pushes' = <<>>
           /\ cur' = NoPacket
           /\ data_mutex_' = "free"
           /\ UNCHANGED <<aquisition_state_, sess_vars, reg_vars,
                          thread_end, handler_calls, device_open_>>
      ]_vars

\* after an allocation failure, a later packet has been pushed to both
\* channels of a Running device
C18_Witness ==
    /\ alloc_failed
    /\ aquisition_state_ = "Running"
    /\ apc = "push"
    /\ Len(cur.chans) = 2
    /\ Len(pushes) = 2

(***************************************************************************)
(* C19  pause_aquisition() changes the acquisition state and nothing       *)
(* else: the session, the acquisition thread, the callback, the open flag  *)
(* and the registries are as before.  A following start_aquisition()       *)
(* writes Running and changes nothing else, so the next analog packet of   *)
(* the still running session passes the gate, with no re-open.             *)
(***************************************************************************)
PauseCalled ==
    \/ last_op' = "pause" /\ last_op # "pause"
    \/ aquisition_state_' = "Paused" /\ aquisition_state_ # "Paused"

StartCalled == last_op' = "start" /\ last_op # "start"

C19_PauseFrame ==
    [][/\ PauseCalled =>
              /\ aquisition_state_' = "Paused"
              /\ UNCHANGED <<dev_vars, conf_vars, obs_vars, reg_vars,
                             frame_vars, sess_vars, feed_vars, thr_vars,
                             opc, close_from_open, opens, device_open_,
                             clock>>
       /\ (StartCalled /\ last_op = "pause") =>
              /\ AnalogGate'
              /\ UNCHANGED <<dev_vars, conf_vars, obs_vars, reg_vars,
                             frame_vars, sess_vars, feed_vars, thr_vars,
                             opc, close_from_open, opens, device_open_,
                             clock>>
      ]_vars

\* a packet was dropped while paused; after start_aquisition(), with the
\* device opened once, a packet has been pushed to both channels
C19_Witness ==
    /\ last_op = "start"
    /\ dropped
    /\ opens = 1
    /\ device_open_
    /\ apc = "push"
    /\ Len(cur.chans) = 2
    /\ Len(pushes) = 2

(***************************************************************************)
(* C20  Channel registry pass 2.  Once the registry is built, every        *)
(* channel the device reports is registered, and a channel is in the       *)
(* empty-name group (by its own group names and by the group's list)       *)
(* exactly when no channel group of the device has it.                     *)
(***************************************************************************)
InEmptyGroupList(o) ==
    /\ "" \in DOMAIN channel_group_name_map_
    /\ o \in SeqToSet(channel_group_name_map_[""])

C20_PassTwo ==
    opens > 0 =>
        \A sr \in SrChannels :
            /\ sr \in DOMAIN sr_channel_map_
            /\ SrName(sr) \in DOMAIN channel_name_map_
            /\ channel_name_map_[SrName(sr)] = sr_channel_map_[sr]
            /\ ("" \in channel_objs[sr_channel_map_[sr]].channel_group_names)
                   <=> GroupsOf(sr) = {}
            /\ InEmptyGroupList(sr_channel_map_[sr]) <=> GroupsOf(sr) = {}

\* the device reports CH1 in group A and CH2 in no group; the registry was
\* built twice
C20_Witness ==
    /\ opens = 2
    /\ GroupsOf(1) = {"A"}
    /\ GroupsOf(2) = {}
    /\ InEmptyGroupList(sr_channel_map_[2])
    /\ ~InEmptyGroupList(sr_channel_map_[1])
    /\ channel_objs[sr_channel_map_[2]].channel_group_names = {""}

(***************************************************************************)
(* C21  Initial configuration ordering.  For the demo driver the sample    *)
(* rate of 5 is set in the driver before the acquisition starts: whenever  *)
(* the session has been started, or an analog packet is being handled, the *)
(* driver's sample rate is 5.                                              *)
(***************************************************************************)
C21_SamplerateBeforeStart ==
    (driver_name = "demo" /\ (sess # "idle" \/ InFeedInAnalog))
        => sr_samplerate = 5

(***************************************************************************)
(* C22  End handling duplicates frame-end handling.  After an End packet   *)
(* the inside-frame flag is false, as after a FrameEnd packet, until the   *)
(* next FrameBegin; on a stream whose frame was already closed the End     *)
(* packet changes nothing.                                                 *)
(***************************************************************************)
C22_EndClosesFrame == stream_end => ~frame_began_

(***************************************************************************)
(* C23  Configurable registry construction.  After init_configurables the  *)
(* registry holds a Configurable under a group's name exactly for the      *)
(* channel groups that have at least one config key, and one under the     *)
(* empty key exactly when the device has a config key other than the       *)
(* acquisition-control keys (continuous mode, sample-count limit, time     *)
(* limit); the sample-rate property, when there is one, is the one of the  *)
(* Configurable under the empty key.                                       *)
(***************************************************************************)
KeyedGroups == {g \in DOMAIN sr_channel_groups : g \in cg_config_keys}

DeviceKeysLeft ==
    sr_config_keys \ {"CONTINUOUS", "LIMIT_SAMPLES", "LIMIT_MSEC"}

C23_Built ==
    /\ configurable_map_ \ {""} = KeyedGroups
    /\ "" \in configurable_map_ <=> DeviceKeysLeft # {}
    /\ samplerate_prop_ # NoProperty =>
           (samplerate_prop_ = "" /\ "" \in configurable_map_)

C23_ConfigurableRegistry == [][C23_Built']_vars

C23_Witness ==
    /\ DOMAIN sr_channel_groups = {"A", "B"}
    /\ cg_config_keys = {"A"}
    /\ sr_config_keys = {"CONTINUOUS", "LIMIT_SAMPLES", "LIMIT_MSEC"}
    /\ sr_get_keys = sr_config_keys
    /\ configurable_map_ = {"A"}
    /\ samplerate_prop_ = NoProperty

(***************************************************************************)
(* C24  close() returns.  The stop request of close() is not lost: while   *)
(* close() waits in join() and the acquisition thread is inside            *)
(* sr_session_->run(), the session has been told to stop, so that run()    *)
(* returns and the join ends.                                              *)
(***************************************************************************)
C24_StopNotLost ==
    (opc = "close_join" /\ apc \in {"run", "alloc", "push"})
        => sess = "stopping"

(***************************************************************************)
(* C25  Registry stability across re-open.  Once the registry was built,   *)
(* building it again for the unchanged device (open() after close(), or    *)
(* open() on an open device) leaves every channel-group list and the name  *)
(* registry as they were: no channel is appended to a group list a second  *)
(* time.                                                                   *)
(***************************************************************************)
C25_ReopenIdempotent ==
    [][opens >= 1 =>
          /\ channel_group_name_map_' = channel_group_name_map_
          /\ channel_name_map_' = channel_name_map_
      ]_vars

(***************************************************************************)
(* C26  Frame state does not leak across sessions.  When open() has        *)
(* started a new acquisition thread and no packet of the new session was   *)
(* dispatched yet, the inside-frame flag is false, so that an analog       *)
(* packet of the new session outside any frame is not stamped with the     *)
(* frame-start timestamp of an earlier session.                            *)
(***************************************************************************)
C26_NoFrameLeak == apc \in {"start", "started"} => ~frame_began_

====
